---- MODULE Spec2Model ----
(***************************************************************************)
(* Model of app-server/src/express-configurer.js: the error formatter      *)
(* (sendError), the request snapshot (formatForLog), the async dispatch    *)
(* wrapper (asyncHandler), the logging middleware, the API route table     *)
(* (createApiRouter) and the pipeline assembly (ExpressConfigurer).        *)
(***************************************************************************)
EXTENDS Integers, Sequences, FiniteSets, TLC

VARIABLES
  users,      \* config.users: the configured credential mapping (its keys)
  stack,      \* this.app: the middleware layers installed so far, in order
  called,     \* the ExpressConfigurer stage methods called so far
  req,        \* the request being served (req), or NoRequest
  idx,        \* position of the request in the middleware stack
  pc,         \* where the request is: idle, pipeline, router, await, ...
  trace,      \* what happened for this request, in order
  infoLog,    \* log.info writes for this request
  errorLog,   \* log.error writes for this request
  res,        \* terminal response operations done on res for this request
  failure,    \* the value the route handler's promise rejected with, if any
  outputDir,  \* names of the files under config.outputDirectory
  thumbDir,   \* names of the files under config.thumbnailDirectory
  pending,    \* thumbnail renames started by PUT and not awaited
  settled,    \* the not-awaited thumbnail renames that ended during this request
  served,     \* number of requests accepted so far
  arg,        \* input of a direct call of sendError / formatForLog
  ret         \* what that call did

vars == <<users, stack, called, req, idx, pc, trace, infoLog, errorLog, res,
          failure, outputDir, thumbDir, pending, settled, served, arg, ret>>

-----------------------------------------------------------------------------
(* Bounds of the model.                                                    *)

\* requests accepted in one behaviour
MaxRequests == 2
\* PUT requests accepted in one behaviour of SpecRename
MaxRenames == 3
\* stage methods of ExpressConfigurer called in one behaviour
MaxStageCalls == 2

-----------------------------------------------------------------------------
(* JavaScript values that reach sendError as `data`.                       *)

RawObject(hasMessage, message, hasCode, code) ==
  [kind |-> "object", hasMessage |-> hasMessage, message |-> message,
   hasCode |-> hasCode, code |-> code, text |-> "", num |-> 0]
RawNull      == [RawObject(FALSE, "", FALSE, 0) EXCEPT !.kind = "null"]
RawArray     == [RawObject(FALSE, "", FALSE, 0) EXCEPT !.kind = "array"]
RawUndefined == [RawObject(FALSE, "", FALSE, 0) EXCEPT !.kind = "undefined"]
RawString(s) == [RawObject(FALSE, "", FALSE, 0) EXCEPT !.kind = "string", !.text = s]
RawNumber(n) == [RawObject(FALSE, "", FALSE, 0) EXCEPT !.kind = "number", !.num = n]
RawBoolean(b) ==
  [RawObject(FALSE, "", FALSE, 0) EXCEPT !.kind = "boolean", !.num = IF b THEN 1 ELSE 0]

Messages == {"", "x", "boom"}
Codes    == {0, 7, -1}

RawObjects ==
  { RawObject(hm, IF hm THEN m ELSE "", hc, IF hc THEN c ELSE 0) :
      hm \in BOOLEAN, m \in Messages, hc \in BOOLEAN, c \in Codes }

RawValues ==
  RawObjects \cup {RawNull, RawArray, RawUndefined}
    \cup {RawString(s) : s \in Messages}
    \cup {RawNumber(n) : n \in {0, 42}}
    \cup {RawBoolean(b) : b \in BOOLEAN}

StatusCodes == {400, 404, 500}

\* typeof data
TypeOf(data) ==
  IF data.kind \in {"object", "null", "array"} THEN "object" ELSE data.kind

\* JSON.stringify(data) for the values for which line 33 evaluates it
JSONStringify(data) ==
  IF data.kind = "array" THEN "[]"
  ELSE LET m == IF data.hasMessage
                THEN "\"message\":\"" \o data.message \o "\"" ELSE ""
           c == IF data.hasCode THEN "\"code\":" \o ToString(data.code) ELSE ""
           sep == IF data.hasMessage /\ data.hasCode THEN "," ELSE ""
       IN "{" \o m \o sep \o c \o "}"

-----------------------------------------------------------------------------
(* Responses.                                                              *)

\* the body of a response that is no error payload
NoContent == [fields |-> {}, message |-> "", code |-> 0]

Response(status, by, text, content) ==
  [status |-> status, by |-> by, text |-> text, content |-> content]

-----------------------------------------------------------------------------
(* sendError(res, code, data), lines 27-39.                                *)

\* sendError without the branch for text of lines 35-37
ErrorContent_NoTextBranch(data) ==
  IF TypeOf(data) = "object"
  THEN LET message == IF data.hasMessage /\ data.message # ""
                      THEN data.message ELSE JSONStringify(data)
           code    == IF data.hasCode /\ data.code # 0 THEN data.code ELSE -1
       IN [fields |-> {"message", "code"}, message |-> message, code |-> code]
  ELSE [fields |-> {"message"}, message |-> "", code |-> 0]

\* lines 28-37: the payload built from data; reading data.message of null
\* throws a TypeError (typeof null is 'object')
ErrorContent(data) ==
  IF TypeOf(data) = "object"
  THEN LET message == IF data.hasMessage /\ data.message # ""
                      THEN data.message ELSE JSONStringify(data)
           code    == IF data.hasCode /\ data.code # 0 THEN data.code ELSE -1
       IN [fields |-> {"message", "code"}, message |-> message, code |-> code]
  ELSE IF TypeOf(data) = "string"
  THEN [fields |-> {"message"}, message |-> data.text, code |-> 0]
  ELSE [fields |-> {"message"}, message |-> "", code |-> 0]

sendError(r, code, data) ==
  IF data.kind = "null"
  THEN [threw |-> TRUE, log |-> <<data>>, res |-> r,
        events |-> <<"log.error", "throw">>]
  ELSE [threw |-> FALSE, log |-> <<data>>,
        res |-> Append(r, Response(code, "sendError", "", ErrorContent(data))),
        events |-> <<"log.error", "res.send">>]

-----------------------------------------------------------------------------
(* formatForLog(req), lines 44-55.                                         *)

properties == <<"method", "path", "params", "query", "body">>
Properties == {properties[i] : i \in 1..Len(properties)}

\* a value of a request field: text, a keyed structure with `size` entries,
\* null, a number or undefined
FieldString(s) == [type |-> "string", text |-> s, size |-> 0]
FieldObject(n) == [type |-> "object", text |-> "", size |-> n]
FieldNull      == [type |-> "null", text |-> "", size |-> 0]
FieldNumber    == [type |-> "number", text |-> "", size |-> 0]
FieldUndefined == [type |-> "undefined", text |-> "", size |-> 0]

\* typeof req[property]
TypeOfField(v) == IF v.type = "null" THEN "object" ELSE v.type

\* line 47
InReq(q, property) == property \in q.present

\* lines 48-49; Object.keys(null) throws
KeepsField(v) ==
  \/ TypeOfField(v) = "string"
  \/ TypeOfField(v) = "object" /\ v.size > 0

formatForLog(q) ==
  LET present == SelectSeq(properties, LAMBDA p : InReq(q, p))
      throws  == \E i \in 1..Len(present) : q.val[present[i]].type = "null"
      kept    == SelectSeq(present, LAMBDA p : KeepsField(q.val[p]))
  IN IF throws
     THEN [threw |-> TRUE, output |-> << >>]
     ELSE [threw |-> FALSE,
           output |-> [i \in 1..Len(kept) |-> <<kept[i], q.val[kept[i]]>>]]

-----------------------------------------------------------------------------
(* Requests.                                                               *)

Names == {"a.jpg", "b.jpg"}

\* the value the collaborators of the API module may fail with
Failures ==
  { RawObject(TRUE, "boom", TRUE, 7), RawObject(TRUE, "x", FALSE, 0),
    RawObject(FALSE, "", FALSE, 0), RawNull, RawString("boom"),
    RawNumber(42), RawUndefined }

\* the TypeError of line 121 when req.body is undefined
TypeError == RawObject(TRUE, "TypeError", FALSE, 0)
\* what FileInfo.rename rejects with when the file system refuses the rename
RenameError == RawObject(TRUE, "ENOENT", FALSE, 0)

NoRequest ==
  [method |-> "", mount |-> "", path |-> "", creds |-> "", fileName |-> "",
   newName |-> "", payload |-> 0, query |-> 0, body |-> "absent"]

Request(method, mount, path, creds, fileName, newName, payload, query) ==
  [method |-> method, mount |-> mount, path |-> path, creds |-> creds,
   fileName |-> fileName, newName |-> newName, payload |-> payload,
   query |-> query, body |-> "absent"]

\* lines 81-154: method, path pattern and the API collaborator a route calls
routes ==
  << [method |-> "DELETE", path |-> "/context", call |-> "api.deleteContext"],
     [method |-> "GET", path |-> "/context", call |-> "api.readContext"],
     [method |-> "GET", path |-> "/files", call |-> "api.fileList"],
     [method |-> "POST", path |-> "/files/:fileName/actions/:actionName",
      call |-> "api.fileAction"],
     [method |-> "GET", path |-> "/files/:fileName/thumbnail",
      call |-> "api.readThumbnail"],
     [method |-> "GET", path |-> "/files/:fileName", call |-> "FileInfo.unsafe"],
     [method |-> "DELETE", path |-> "/files/:fileName", call |-> "api.fileDelete"],
     [method |-> "PUT", path |-> "/files/:fileName", call |-> "FileInfo.rename"],
     [method |-> "GET", path |-> "/preview", call |-> "api.readPreview"],
     [method |-> "DELETE", path |-> "/preview", call |-> "api.deletePreview"],
     [method |-> "POST", path |-> "/preview", call |-> "api.createPreview"],
     [method |-> "POST", path |-> "/scan", call |-> "api.scan"],
     [method |-> "GET", path |-> "/system", call |-> "api.readSystem"] >>

ApiPrefix == "/api/v1"

\* the requests a client may send
Requests(credentials) ==
  LET plain(m, mount, p, payload, query) ==
        { Request(m, mount, p, c, "a.jpg", "a.jpg", payload, query) :
            c \in credentials }
  IN UNION { plain(routes[i].method, ApiPrefix, routes[i].path,
                   IF routes[i].method = "POST" THEN 1 ELSE 0,
                   IF routes[i].call = "api.readPreview" THEN 1 ELSE 0) :
               i \in {j \in 1..Len(routes) : routes[j].method # "PUT"} }
     \cup { Request("PUT", ApiPrefix, "/files/:fileName", c, f, n, 1, 0) :
              c \in credentials, f \in Names, n \in Names }
     \cup plain("GET", ApiPrefix, "/nope", 0, 0)
     \cup plain("GET", "", "/index.html", 0, 0)
     \cup plain("GET", "", "/api-docs/swagger.json", 0, 0)
     \cup plain("GET", "", "/api-docs", 0, 0)

\* the route of the router that matches the request: its index, or 0
Match(q) ==
  LET hits == {i \in 1..Len(routes) :
                 routes[i].method = q.method /\ routes[i].path = q.path}
  IN IF hits = {} THEN 0 ELSE CHOOSE i \in hits : \A j \in hits : i <= j

\* the request as loggingMiddleware sees it at the mount: params are those of
\* the mount (none), body is there once a body parser has run
ReqView(q) ==
  [present |-> {"method", "path", "params", "query"}
                 \cup (IF q.body = "absent" THEN {} ELSE {"body"}),
   val |-> [p \in Properties |->
              CASE p = "method" -> FieldString(q.method)
                [] p = "path"   -> FieldString(q.path)
                [] p = "params" -> FieldObject(0)
                [] p = "query"  -> FieldObject(q.query)
                [] p = "body"   -> IF q.body = "parsed"
                                   THEN FieldObject(q.payload)
                                   ELSE FieldObject(0)]]

-----------------------------------------------------------------------------
(* The state after `ExpressConfigurer.with(app)`: an app with no layers.   *)

NoCall == [fn |-> "none"]

Init ==
  /\ users \in {{}, {"admin"}}
  /\ stack = << >>
  /\ called = << >>
  /\ req = NoRequest
  /\ idx = 0
  /\ pc = "idle"
  /\ trace = << >>
  /\ infoLog = << >>
  /\ errorLog = << >>
  /\ res = << >>
  /\ failure = << >>
  /\ outputDir = {"a.jpg"}
  /\ thumbDir \in {{}, {"a.jpg"}}
  /\ pending = {}
  /\ settled = {}
  /\ served = 0
  /\ arg = NoCall
  /\ ret = NoCall

-----------------------------------------------------------------------------
(* ExpressConfigurer stage methods, lines 181-256.  Each appends its       *)
(* layers to the app's stack; they are called while the app is assembled,  *)
(* before it serves.                                                       *)

Assembling == served = 0 /\ Len(called) < MaxStageCalls

Use(stage, layers) ==
  /\ Assembling
  /\ stack' = stack \o layers
  /\ called' = Append(called, stage)
  /\ UNCHANGED <<users, req, idx, pc, trace, infoLog, errorLog, res, failure,
                 outputDir, thumbDir, pending, settled, served, arg, ret>>

\* basicAuth() with the test of line 182 inverted
basicAuth_Inverted ==
  Use("basicAuth", IF users = {} THEN <<"basicAuth">> ELSE << >>)

\* lines 181-189
basicAuth == Use("basicAuth", IF users # {} THEN <<"basicAuth">> ELSE << >>)

\* lines 195-199
encoding == Use("encoding", <<"urlencoded", "json">>)

\* lines 205-209
endpoints == Use("endpoints", <<"api">>)

\* lines 215-218
statics == Use("statics", <<"static">>)

\* lines 224-256
swagger == Use("swagger", <<"swaggerJson", "swaggerUi">>)

-----------------------------------------------------------------------------
(* A request enters the pipeline.                                          *)

Finished == pc \in {"idle", "done", "unhandled"}

Accept(q) ==
  /\ Finished
  /\ req' = q
  /\ idx' = 1
  /\ pc' = "pipeline"
  /\ trace' = << >>
  /\ infoLog' = << >>
  /\ errorLog' = << >>
  /\ res' = << >>
  /\ failure' = << >>
  /\ settled' = {}
  /\ served' = served + 1
  /\ UNCHANGED <<users, stack, called, outputDir, thumbDir, pending, arg, ret>>

Arrive ==
  /\ served < MaxRequests
  /\ \E q \in Requests(IF users = {} THEN {"none"} ELSE {"none", "valid"}) :
       Accept(q)

-----------------------------------------------------------------------------
(* The layers of the pipeline.                                             *)

AtLayer(layer) == pc = "pipeline" /\ idx <= Len(stack) /\ stack[idx] = layer

\* what no step of a request changes
Config == <<users, stack, called, served, arg, ret>>
Files  == <<outputDir, thumbDir, pending, settled>>

\* next(): on to the following layer
PassOn ==
  /\ idx' = idx + 1
  /\ UNCHANGED <<pc, trace, infoLog, errorLog, res, failure>>

\* a layer ends the request with one response
Respond(response, events) ==
  /\ res' = Append(res, response)
  /\ trace' = trace \o events
  /\ pc' = "done"
  /\ UNCHANGED <<idx, infoLog, errorLog, failure>>

\* lines 183-186: express-basic-auth with challenge: true
AuthGate ==
  /\ AtLayer("basicAuth")
  /\ IF req.creds = "valid"
     THEN PassOn
     ELSE Respond(Response(401, "basicAuth", "challenge", NoContent),
                  <<"challenge">>)
  /\ UNCHANGED <<req, Config, Files>>

\* line 196: express.urlencoded leaves req.body = {} for a body that is not
\* URL-encoded
UrlEncoded ==
  /\ AtLayer("urlencoded")
  /\ req' = [req EXCEPT !.body = IF @ = "absent" THEN "empty" ELSE @]
  /\ PassOn
  /\ UNCHANGED <<Config, Files>>

\* line 197: express.json parses the body
Json ==
  /\ AtLayer("json")
  /\ req' = [req EXCEPT !.body = "parsed"]
  /\ PassOn
  /\ UNCHANGED <<Config, Files>>

\* line 207: the mount does not match a path outside /api/v1
ApiMountSkips ==
  /\ AtLayer("api")
  /\ req.mount # ApiPrefix
  /\ PassOn
  /\ UNCHANGED <<req, Config, Files>>

\* loggingMiddleware calling next() without the log.info of line 70
loggingMiddleware_NoLog ==
  /\ AtLayer("api")
  /\ req.mount = ApiPrefix
  /\ pc' = "router"
  /\ UNCHANGED <<idx, trace, infoLog, errorLog, res, failure>>
  /\ UNCHANGED <<req, Config, Files>>

\* lines 69-72, entered through the mount of line 207
loggingMiddleware ==
  /\ AtLayer("api")
  /\ req.mount = ApiPrefix
  /\ LET snapshot == formatForLog(ReqView(req))
     IN IF snapshot.threw
        THEN /\ Respond(Response(500, "express", "error", NoContent), <<"throw">>)
        ELSE /\ infoLog' = Append(infoLog, snapshot.output)
             /\ trace' = Append(trace, "log.info")
             /\ pc' = "router"
             /\ UNCHANGED <<idx, errorLog, res, failure>>
  /\ UNCHANGED <<req, Config, Files>>

\* line 216: express.static('client') serves the files of the client bundle
Static ==
  /\ AtLayer("static")
  /\ IF req.mount = "" /\ req.path = "/index.html"
     THEN Respond(Response(200, "static", "index.html", NoContent), <<"static">>)
     ELSE PassOn
  /\ UNCHANGED <<req, Config, Files>>

\* lines 246-248
SwaggerJson ==
  /\ AtLayer("swaggerJson")
  /\ IF req.mount = "" /\ req.path = "/api-docs/swagger.json"
     THEN Respond(Response(200, "swagger", "swaggerSpec", NoContent), <<"swagger">>)
     ELSE PassOn
  /\ UNCHANGED <<req, Config, Files>>

\* lines 250-253
SwaggerUi ==
  /\ AtLayer("swaggerUi")
  /\ IF req.mount = "" /\ req.path \in {"/api-docs", "/api-docs/swagger.json"}
     THEN Respond(Response(200, "swagger", "swaggerUi", NoContent), <<"swagger">>)
     ELSE PassOn
  /\ UNCHANGED <<req, Config, Files>>

\* the end of the app's stack: no layer answered
FinalHandler ==
  /\ pc = "pipeline"
  /\ idx > Len(stack)
  /\ Respond(Response(404, "express", "not found", NoContent), <<"404">>)
  /\ UNCHANGED <<req, Config, Files>>

-----------------------------------------------------------------------------
(* asyncHandler(fn), lines 60-64: the route handler runs; if its promise   *)
(* rejects, the rejection goes to sendError with status 500.  If sendError *)
(* throws, the rejection of the .catch promise is handled by nobody.       *)

asyncHandlerCatch(events, error) ==
  LET r == sendError(res, 500, error)
  IN /\ failure' = <<error>>
     /\ errorLog' = errorLog \o r.log
     /\ res' = r.res
     /\ trace' = trace \o events \o r.events
     /\ pc' = IF r.threw THEN "unhandled" ELSE "done"
     /\ UNCHANGED <<idx, infoLog>>

\* the route handler's own terminal response: res.send, res.download
Sent(events, status, text) ==
  /\ res' = Append(res, Response(status, "handler", text, NoContent))
  /\ trace' = trace \o events \o <<"res.send">>
  /\ pc' = "done"
  /\ UNCHANGED <<idx, infoLog, errorLog, failure>>

\* the route handler suspends at an await
Suspend(events, at) ==
  /\ trace' = trace \o events
  /\ pc' = at
  /\ UNCHANGED <<idx, infoLog, errorLog, res, failure>>

-----------------------------------------------------------------------------
(* createApiRouter, lines 77-157.                                          *)

Matched(method, path) ==
  /\ pc = "router"
  /\ Match(req) # 0
  /\ routes[Match(req)].method = method
  /\ routes[Match(req)].path = path

Awaiting(method, path) ==
  pc = "await" /\ req.method = method /\ req.path = path

\* a handler that calls the API collaborator and sends what it returns,
\* without an await before the send
SyncRoute(method, path, call, text) ==
  /\ Matched(method, path)
  /\ \/ Sent(<<"handler", call>>, 200, text)
     \/ \E e \in Failures : asyncHandlerCatch(<<"handler", call>>, e)
  /\ UNCHANGED <<req, Config, Files>>

\* a handler that awaits the API collaborator and then sends
AwaitRoute(method, path, call, text) ==
  /\ \/ Matched(method, path) /\ Suspend(<<"handler", call>>, "await")
     \/ Awaiting(method, path) /\ Sent(<< >>, 200, text)
     \/ Awaiting(method, path) /\ \E e \in Failures : asyncHandlerCatch(<< >>, e)
  /\ UNCHANGED <<req, Config, Files>>

\* lines 81-84
DeleteContext == SyncRoute("DELETE", "/context", "api.deleteContext", "{}")

\* lines 86-88
GetContext == AwaitRoute("GET", "/context", "api.readContext", "context")

\* lines 91-93
GetFiles == AwaitRoute("GET", "/files", "api.fileList", "fileList")

\* lines 95-99
PostFileAction ==
  AwaitRoute("POST", "/files/:fileName/actions/:actionName", "api.fileAction", "200")

\* lines 101-106
GetThumbnail ==
  AwaitRoute("GET", "/files/:fileName/thumbnail", "api.readThumbnail", "jpg")

\* lines 108-112: res.download answers 404 through the app when the file is
\* not there
GetFile ==
  /\ Matched("GET", "/files/:fileName")
  /\ Sent(<<"handler", "FileInfo.unsafe">>,
          IF req.fileName \in outputDir THEN 200 ELSE 404, "download")
  /\ UNCHANGED <<req, Config, Files>>

\* lines 114-117
DeleteFile == SyncRoute("DELETE", "/files/:fileName", "api.fileDelete", "fileDelete")

\* the PUT handler with the thumbnail handled before the file rename is
\* awaited (lines 123-126 moved above line 122)
PutFile_ThumbnailFirst ==
  \/ /\ Matched("PUT", "/files/:fileName")
     /\ IF req.body = "absent"
        THEN /\ asyncHandlerCatch(<<"handler">>, TypeError)
             /\ pending' = pending
        ELSE IF req.fileName \in thumbDir
        THEN /\ pending' = pending \cup
                  {[from |-> req.fileName, to |-> req.newName, by |-> served]}
             /\ Suspend(<<"handler", "thumbnail.exists", "thumbnail.rename",
                          "FileInfo.rename">>, "renaming")
        ELSE /\ pending' = pending
             /\ Suspend(<<"handler", "thumbnail.exists", "FileInfo.rename">>,
                        "renaming")
     /\ UNCHANGED <<req, Config, outputDir, thumbDir, settled>>
  \/ /\ pc = "renamed"
     /\ Sent(<< >>, 200, "200")
     /\ UNCHANGED <<req, Config, Files>>
  \/ /\ pc = "renameFailed"
     /\ asyncHandlerCatch(<< >>, RenameError)
     /\ UNCHANGED <<req, Config, Files>>

\* lines 119-128
PutFile ==
  \/ /\ Matched("PUT", "/files/:fileName")
     /\ IF req.body = "absent"
        THEN asyncHandlerCatch(<<"handler">>, TypeError)
        ELSE Suspend(<<"handler", "FileInfo.rename">>, "renaming")
     /\ UNCHANGED <<req, Config, Files>>
  \/ /\ pc = "renamed"
     /\ IF req.fileName \in thumbDir
        THEN /\ pending' = pending \cup
                  {[from |-> req.fileName, to |-> req.newName, by |-> served]}
             /\ Sent(<<"thumbnail.exists", "thumbnail.rename">>, 200, "200")
        ELSE /\ pending' = pending
             /\ Sent(<<"thumbnail.exists">>, 200, "200")
     /\ UNCHANGED <<req, Config, outputDir, thumbDir, settled>>
  \/ /\ pc = "renameFailed"
     /\ asyncHandlerCatch(<< >>, RenameError)
     /\ UNCHANGED <<req, Config, Files>>

\* lines 131-136
GetPreview == AwaitRoute("GET", "/preview", "api.readPreview", "content")

\* lines 138-140
DeletePreview == SyncRoute("DELETE", "/preview", "api.deletePreview", "deletePreview")

\* lines 142-144
PostPreview == AwaitRoute("POST", "/preview", "api.createPreview", "createPreview")

\* lines 147-149
PostScan == AwaitRoute("POST", "/scan", "api.scan", "scan")

\* lines 152-154
GetSystem == AwaitRoute("GET", "/system", "api.readSystem", "system")

\* line 207: no route of the router matches, the request goes on
RouterPassesOn ==
  /\ pc = "router"
  /\ Match(req) = 0
  /\ pc' = "pipeline"
  /\ idx' = idx + 1
  /\ UNCHANGED <<req, trace, infoLog, errorLog, res, failure, Config, Files>>

-----------------------------------------------------------------------------
(* The FileInfo collaborator: rename moves a name inside its directory and *)
(* fails when the name is not there.  The rename completes some time after *)
(* the call that started it.                                               *)

Renamed(dir, from, to) == (dir \ {from}) \cup {to}

\* the rename awaited at line 122 completes
FileRename ==
  /\ pc = "renaming"
  /\ IF req.fileName \in outputDir
     THEN /\ outputDir' = Renamed(outputDir, req.fileName, req.newName)
          /\ trace' = Append(trace, "renamed")
          /\ pc' = "renamed"
     ELSE /\ outputDir' = outputDir
          /\ trace' = Append(trace, "rename failed")
          /\ pc' = "renameFailed"
  /\ UNCHANGED <<req, idx, infoLog, errorLog, res, failure, Config,
                 thumbDir, pending, settled>>

\* a rename started at line 125 completes
ThumbRename ==
  \E t \in pending :
    /\ pending' = pending \ {t}
    /\ IF t.from \in thumbDir
       THEN /\ thumbDir' = Renamed(thumbDir, t.from, t.to)
            /\ settled' = settled \cup
                 {[from |-> t.from, to |-> t.to, by |-> t.by, ok |-> TRUE]}
       ELSE /\ thumbDir' = thumbDir
            /\ settled' = settled \cup
                 {[from |-> t.from, to |-> t.to, by |-> t.by, ok |-> FALSE]}
    /\ UNCHANGED <<req, idx, pc, trace, infoLog, errorLog, res, failure, Config,
                   outputDir>>

-----------------------------------------------------------------------------

Next ==
  \/ basicAuth \/ encoding \/ endpoints \/ statics \/ swagger
  \/ Arrive
  \/ AuthGate \/ UrlEncoded \/ Json \/ ApiMountSkips \/ loggingMiddleware
  \/ Static \/ SwaggerJson \/ SwaggerUi \/ FinalHandler
  \/ DeleteContext \/ GetContext \/ GetFiles \/ PostFileAction \/ GetThumbnail
  \/ GetFile \/ DeleteFile \/ PutFile \/ GetPreview \/ DeletePreview
  \/ PostPreview \/ PostScan \/ GetSystem \/ RouterPassesOn
  \/ FileRename \/ ThumbRename

Spec == Init /\ [][Next]_vars

-----------------------------------------------------------------------------
(* The PUT route on its own: the app assembled by encoding().endpoints(),  *)
(* serving renames over three file names, one request after the other.     *)

RenameNames == {"a.jpg", "b.jpg", "c.jpg"}

InitRename ==
  /\ users = {}
  /\ stack = <<"urlencoded", "json", "api">>
  /\ called = <<"encoding", "endpoints">>
  /\ req = NoRequest
  /\ idx = 0
  /\ pc = "idle"
  /\ trace = << >>
  /\ infoLog = << >>
  /\ errorLog = << >>
  /\ res = << >>
  /\ failure = << >>
  /\ outputDir = {"a.jpg"}
  /\ thumbDir \in {{}, {"a.jpg"}}
  /\ pending = {}
  /\ settled = {}
  /\ served = 0
  /\ arg = NoCall
  /\ ret = NoCall

ArriveRename ==
  /\ served < MaxRenames
  /\ \E f \in RenameNames, n \in RenameNames :
       Accept(Request("PUT", ApiPrefix, "/files/:fileName", "none", f, n, 1, 0))

NextRename ==
  \/ ArriveRename \/ UrlEncoded \/ Json \/ loggingMiddleware
  \/ PutFile \/ FileRename \/ ThumbRename

SpecRename == InitRename /\ [][NextRename]_vars

-----------------------------------------------------------------------------
(* sendError and formatForLog called directly, on every input of a bounded *)
(* set.                                                                    *)

Quiet ==
  /\ users = {}
  /\ stack = << >>
  /\ called = << >>
  /\ req = NoRequest
  /\ idx = 0
  /\ pc = "idle"
  /\ trace = << >>
  /\ infoLog = << >>
  /\ errorLog = << >>
  /\ res = << >>
  /\ failure = << >>
  /\ outputDir = {}
  /\ thumbDir = {}
  /\ pending = {}
  /\ settled = {}
  /\ served = 0

Untouched ==
  UNCHANGED <<users, stack, called, req, idx, pc, trace, infoLog, errorLog, res,
              failure, outputDir, thumbDir, pending, settled, served, arg>>

InitSendError ==
  /\ Quiet
  /\ arg \in {[fn |-> "sendError", code |-> c, data |-> d] :
                c \in StatusCodes, d \in RawValues}
  /\ ret = NoCall

CallSendError ==
  /\ arg.fn = "sendError"
  /\ ret.fn = "none"
  /\ ret' = [fn |-> "sendError", out |-> sendError(<< >>, arg.code, arg.data)]
  /\ Untouched

SpecSendError == InitSendError /\ [][CallSendError]_vars

\* a request field that is not on the request
FieldAbsent == [type |-> "absent", text |-> "", size |-> 0]

FieldValues ==
  { FieldString(""), FieldString("GET"), FieldObject(0), FieldObject(2),
    FieldNull, FieldNumber, FieldUndefined }

RequestShapes ==
  { [present |-> {p \in Properties : v[p] # FieldAbsent}, val |-> v] :
      v \in [Properties -> FieldValues \cup {FieldAbsent}] }

InitFormatForLog ==
  /\ Quiet
  /\ arg \in {[fn |-> "formatForLog", req |-> q] : q \in RequestShapes}
  /\ ret = NoCall

CallFormatForLog ==
  /\ arg.fn = "formatForLog"
  /\ ret.fn = "none"
  /\ ret' = [fn |-> "formatForLog", out |-> formatForLog(arg.req)]
  /\ Untouched

SpecFormatForLog == InitFormatForLog /\ [][CallFormatForLog]_vars

-----------------------------------------------------------------------------
(* Properties.                                                             *)

Occurrences(seq, e) == Cardinality({i \in 1..Len(seq) : seq[i] = e})
Happened(e) == \E i \in 1..Len(trace) : trace[i] = e
HandlerRan == Happened("handler")
SentBy(who) == Cardinality({i \in 1..Len(res) : res[i].by = who})
Settled == pc \in {"done", "unhandled"}
Challenge == Response(401, "basicAuth", "challenge", NoContent)
Ok200 == Response(200, "handler", "200", NoContent)
IsPut == req.method = "PUT" /\ req.mount = ApiPrefix

\* stage method a was called, and before every call of stage method b
CalledBefore(a, b) ==
  \E i \in 1..Len(called) :
    /\ called[i] = a
    /\ \A j \in 1..Len(called) : called[j] = b => i < j

\* C1: once a route handler wrapped by asyncHandler has run to its end,
\* exactly one of the two has happened: the handler sent its response, or
\* sendError sent an error response.
C1_ExactlyOneOutcome ==
  (HandlerRan /\ Settled) => SentBy("handler") + SentBy("sendError") = 1

\* C2: whenever the handler's promise has rejected, whatever the value, the
\* response has status 500 and a body with a message field.
C2_FailureGives500 ==
  failure # << >> =>
    /\ Len(res) = 1
    /\ res[1].status = 500
    /\ "message" \in res[1].content.fields

\* C3, as claimed: with credentials configured and basicAuth() called, in
\* whatever order with the other stage methods, a request under the API
\* prefix without valid credentials runs no route handler and is answered
\* with the challenge.
C3_AnyOrder ==
  ( /\ users # {}
    /\ \E i \in 1..Len(called) : called[i] = "basicAuth"
    /\ req.mount = ApiPrefix
    /\ req.creds = "none" )
  => /\ ~HandlerRan
     /\ pc = "done" => res = <<Challenge>>

\* C3, amended: with an empty mapping no gate is installed; with credentials
\* configured and basicAuth() called before endpoints(), no route handler
\* and no collaborator call happens for a request without valid
\* credentials; and with basicAuth() called first of all stage methods the
\* request is answered with the challenge and nothing else.
C3_GateBeforeEndpoints ==
  /\ users = {} => \A i \in 1..Len(stack) : stack[i] # "basicAuth"
  /\ ( users # {} /\ req.creds = "none" /\ CalledBefore("basicAuth", "endpoints") )
     => /\ ~HandlerRan
        /\ \A i \in 1..Len(trace) : trace[i] \in {"challenge", "static", "swagger", "404"}
        /\ \A t \in pending \cup settled : t.by # served
  /\ ( users # {} /\ req.creds = "none" /\ Len(called) > 0
       /\ called[1] = "basicAuth" /\ pc = "done" )
     => /\ res = <<Challenge>>
        /\ trace = <<"challenge">>

C3_Witness ==
  /\ users # {}
  /\ called = <<"basicAuth", "endpoints">>
  /\ req.mount = ApiPrefix /\ Match(req) # 0
  /\ req.creds = "none"
  /\ pc = "done"
  /\ res = <<Challenge>>

\* C4: a PUT whose file rename succeeded is answered '200' and leaves the
\* file under newName; if it found a thumbnail under the old name, then once
\* the renames in flight have completed the thumbnail is under newName too.
C4_FileAndThumbnailRenamed ==
  (IsPut /\ pc = "done" /\ Happened("renamed") /\ pending = {})
  => /\ res = <<Ok200>>
     /\ req.newName \in outputDir
     /\ Happened("thumbnail.rename") => req.newName \in thumbDir

\* C5: sendError never throws: it logs the raw failure first and then sends
\* exactly one response with the given status.
C5_NeverThrows ==
  ret.fn = "sendError" =>
    /\ ~ret.out.threw
    /\ ret.out.log = <<arg.data>>
    /\ ret.out.events = <<"log.error", "res.send">>
    /\ Len(ret.out.res) = 1
    /\ ret.out.res[1].status = arg.code

\* C6: for an object, message is raw.message when present, else the object
\* serialized; code is raw.code when present, else -1.
C6_ObjectPayload ==
  (ret.fn = "sendError" /\ arg.data.kind = "object") =>
    /\ Len(ret.out.res) = 1
    /\ ret.out.res[1].content.fields = {"message", "code"}
    /\ ret.out.res[1].content.message =
         IF arg.data.hasMessage THEN arg.data.message ELSE JSONStringify(arg.data)
    /\ ret.out.res[1].content.code =
         IF arg.data.hasCode THEN arg.data.code ELSE -1

\* the snapshot as C7 describes it
ClaimedSnapshot(q) ==
  LET keep(p) == /\ p \in q.present
                 /\ \/ q.val[p].type = "string" /\ q.val[p].text # ""
                    \/ q.val[p].type = "object" /\ q.val[p].size > 0
      kept == SelectSeq(properties, keep)
  IN [i \in 1..Len(kept) |-> <<kept[i], q.val[kept[i]]>>]

\* C7: formatForLog returns, for every request shape, the fields among
\* method, path, params, query, body, in that order, that are present and
\* are non-empty text or a keyed structure with at least one entry.
C7_Snapshot ==
  ret.fn = "formatForLog" =>
    /\ ~ret.out.threw
    /\ ret.out.output = ClaimedSnapshot(arg.req)

\* C8, as claimed: every request under the API prefix that has come to its
\* end on an app with the API mounted was logged exactly once.
C8_EveryApiRequestLogged ==
  ( /\ \E i \in 1..Len(called) : called[i] = "endpoints"
    /\ req.mount = ApiPrefix
    /\ Settled )
  => Len(infoLog) = 1

\* C8, amended: for every request whose route handler has started, the
\* snapshot was written to the info log exactly once, and that write is the
\* first thing that happened for the request: before the handler started,
\* before any collaborator call and before any response.
C8_LoggedBeforeHandler ==
  HandlerRan =>
    /\ Len(infoLog) = 1
    /\ infoLog[1] = formatForLog(ReqView(req)).output
    /\ Occurrences(trace, "log.info") = 1
    /\ trace[1] = "log.info"
    /\ trace[2] = "handler"
    /\ Len(res) <= 1

C8_Witness ==
  /\ HandlerRan
  /\ pc = "done"
  /\ trace = <<"log.info", "handler", "api.readContext", "res.send">>
  /\ Len(infoLog) = 1

\* C9: for text the payload is {message: raw} without a code field; for a
\* number, a boolean or undefined it is {message: ''} without a code field.
C9_TextAndOther ==
  (ret.fn = "sendError" /\ arg.data.kind \notin {"object", "null", "array"}) =>
    /\ ~ret.out.threw
    /\ Len(ret.out.res) = 1
    /\ ret.out.res[1].content.fields = {"message"}
    /\ ret.out.res[1].content.message =
         IF arg.data.kind = "string" THEN arg.data.text ELSE ""

C9_Witness ==
  /\ ret.fn = "sendError"
  /\ arg.data = RawString("boom")
  /\ ret.out.res[1].content.fields = {"message"}
  /\ ret.out.res[1].content.message = "boom"

\* the thumbnail renames started by the request being served
Own == {t \in pending \cup settled : t.by = served}

====
